---- MODULE Spec2Model ----
(***************************************************************************)
(* Model of the Yahoo Finance cache manager (_shared/yf_cache.py), the      *)
(* normalizer's symbol gate (_shared/yf_normalizer.py) and the request      *)
(* handlers built on them (get_stock, get_crypto, get_multiple_stocks,      *)
(* get_indices).                                                            *)
(*                                                                          *)
(* Strings are sequences of one-character strings, so that upper(), the     *)
(* key format "yf:<SYMBOL>:<range>:<interval>" and the LIKE pattern of      *)
(* invalidate_ticker_cache are computed character by character.             *)
(* Timestamps are whole seconds; expires_at is stored as the digit string   *)
(* isoformat() produces and parsed back where the code parses it.           *)
(***************************************************************************)
EXTENDS Integers, Sequences, FiniteSets, TLC

(***************************************************************************)
(* Bounds of the model.                                                     *)
(***************************************************************************)
\* the clock advances in steps of Tick seconds, up to MaxNow
Tick == 300
MaxNow == 900
\* the clock of the request handlers' specification stops at MaxHandlerNow
MaxHandlerNow == 600
\* at most MaxSets direct set_cached_data calls in one behaviour
MaxSets == 2
\* validate_ticker_symbol is called on every string of up to MaxTickerLen
\* characters of TickerAlphabet (and on strings of 10 and 11 characters)
MaxTickerLen == 2

(***************************************************************************)
(* Program constants.                                                       *)
(***************************************************************************)
CACHE_DURATION_HIGH_VOLUME == 300
CACHE_DURATION_NORMAL == 600

\* the string literals the model uses
S_AAPL == <<"A", "A", "P", "L">>
S_aapl == <<"a", "a", "p", "l">>
S_A_PL == <<"A", "_", "P", "L">>
S_1d == <<"1", "d">>
S_1mo == <<"1", "m", "o">>

HIGH_VOLUME_TICKERS ==
    { S_AAPL,
      <<"M", "S", "F", "T">>,
      <<"G", "O", "O", "G", "L">>,
      <<"A", "M", "Z", "N">>,
      <<"M", "E", "T", "A">>,
      <<"T", "S", "L", "A">>,
      <<"N", "V", "D", "A">>,
      <<"B", "T", "C", "-", "U", "S", "D">>,
      <<"E", "T", "H", "-", "U", "S", "D">>,
      <<"^", "G", "S", "P", "C">>,
      <<"^", "I", "X", "I", "C">>,
      <<"^", "D", "J", "I">> }

(***************************************************************************)
(* str.upper() on ASCII text.                                               *)
(***************************************************************************)
LowerCase ==
    <<"a", "b", "c", "d", "e", "f", "g", "h", "i", "j", "k", "l", "m",
      "n", "o", "p", "q", "r", "s", "t", "u", "v", "w", "x", "y", "z">>

UpperCase ==
    <<"A", "B", "C", "D", "E", "F", "G", "H", "I", "J", "K", "L", "M",
      "N", "O", "P", "Q", "R", "S", "T", "U", "V", "W", "X", "Y", "Z">>

UpperChar(c) ==
    IF \E i \in DOMAIN LowerCase : LowerCase[i] = c
    THEN UpperCase[CHOOSE i \in DOMAIN LowerCase : LowerCase[i] = c]
    ELSE c

Upper(s) == [i \in 1..Len(s) |-> UpperChar(s[i])]

(***************************************************************************)
(* datetime.isoformat() and datetime.fromisoformat(): a timestamp is        *)
(* written as fixed-width decimal fields and read back digit by digit.      *)
(***************************************************************************)
Digits == <<"0", "1", "2", "3", "4", "5", "6", "7", "8", "9">>

DigitOf(n) == Digits[n + 1]

DigitVal(c) == (CHOOSE i \in DOMAIN Digits : Digits[i] = c) - 1

IsoFormat(t) ==
    << DigitOf((t \div 1000) % 10), DigitOf((t \div 100) % 10),
       DigitOf((t \div 10) % 10), DigitOf(t % 10) >>

FromIsoFormat(s) ==
    DigitVal(s[1]) * 1000 + DigitVal(s[2]) * 100 + DigitVal(s[3]) * 10 + DigitVal(s[4])

(***************************************************************************)
(* The market_cache table: a set of rows [id, data, expires_at] and the     *)
(* five operations the cache manager performs on it.                        *)
(***************************************************************************)
\* SQL LIKE: % matches any run of characters, _ matches any one character
RECURSIVE Like(_, _)
Like(s, pat) ==
    IF pat = <<>> THEN s = <<>>
    ELSE IF Head(pat) = "%"
         THEN Like(s, Tail(pat)) \/ (s # <<>> /\ Like(Tail(s), pat))
         ELSE /\ s # <<>>
              /\ (Head(pat) = "_" \/ Head(pat) = Head(s))
              /\ Like(Tail(s), Tail(pat))

SelectById(tbl, key) == {row \in tbl : row.id = key}

\* a plain insert where the code upserts
UpsertAsInsert(tbl, row) == tbl \cup {row}

\* an insert that keeps the row already stored under the id
UpsertKeepsOld(tbl, row) ==
    IF \E old \in tbl : old.id = row.id THEN tbl ELSE tbl \cup {row}

Upsert(tbl, row) == {old \in tbl : old.id # row.id} \cup {row}

DeleteById(tbl, key) == {row \in tbl : row.id # key}

DeleteLike(tbl, pat) == {row \in tbl : ~Like(row.id, pat)}

\* lte where the code filters with lt
DeleteLtOrEqual(tbl, stamp) ==
    {row \in tbl : ~(FromIsoFormat(row.expires_at) <= FromIsoFormat(stamp))}

DeleteLt(tbl, stamp) ==
    {row \in tbl : ~(FromIsoFormat(row.expires_at) < FromIsoFormat(stamp))}

(***************************************************************************)
(* YFinanceCacheManager.                                                    *)
(***************************************************************************)
None == [none |-> TRUE]

\* a key built from the symbol as given, without upper()
GetCacheKeyKeepsCase(ticker, range_period, interval) ==
    <<"y", "f", ":">> \o ticker \o <<":">> \o range_period \o <<":">> \o interval

get_cache_key(ticker, range_period, interval) ==
    <<"y", "f", ":">> \o Upper(ticker) \o <<":">> \o range_period \o <<":">> \o interval

\* the allow-list looked up with the symbol as given, without upper()
GetCacheDurationKeepsCase(ticker) ==
    IF ticker \in HIGH_VOLUME_TICKERS
    THEN CACHE_DURATION_HIGH_VOLUME
    ELSE CACHE_DURATION_NORMAL

get_cache_duration(ticker) ==
    IF Upper(ticker) \in HIGH_VOLUME_TICKERS
    THEN CACHE_DURATION_HIGH_VOLUME
    ELSE CACHE_DURATION_NORMAL

\* the expiry check with <= where the code has <
IsExpiredAtBoundary(expires_at, t) == FromIsoFormat(expires_at) <= t

\* expires_at < datetime.now(timezone.utc), on the parsed expires_at
IsExpired(expires_at, t) == FromIsoFormat(expires_at) < t

\* a lookup that slides the expiry of the entry it returns (an LRU-style touch)
GetLookupRefresh(tbl, ticker, range_period, interval, t, fault) ==
    LET cache_key == get_cache_key(ticker, range_period, interval)
        rows == SelectById(tbl, cache_key)
    IN  IF fault \/ rows = {}
        THEN [next |-> "return", data |-> None, raised |-> FALSE, table |-> tbl]
        ELSE LET row == CHOOSE r \in rows : TRUE
             IN  IF IsExpired(row.expires_at, t)
                 THEN [next |-> "delete", data |-> None, raised |-> FALSE,
                       table |-> tbl]
                 ELSE [next |-> "return", data |-> row.data, raised |-> FALSE,
                       table |-> Upsert(tbl, [row EXCEPT !.expires_at =
                                    IsoFormat(t + get_cache_duration(ticker))])]

\* get_cached_data up to its first await: the lookup and the expiry check.
\* next = "delete" means the call goes on to delete_cache(cache_key); table is
\* the table as the lookup leaves it (the code writes nothing here).
GetLookup(tbl, ticker, range_period, interval, t, fault) ==
    LET cache_key == get_cache_key(ticker, range_period, interval)
        rows == SelectById(tbl, cache_key)
    IN  IF fault \/ Cardinality(rows) > 1
        THEN [next |-> "return", data |-> None, raised |-> FALSE, table |-> tbl]
        ELSE IF rows = {}
        THEN [next |-> "return", data |-> None, raised |-> FALSE, table |-> tbl]
        ELSE LET row == CHOOSE r \in rows : TRUE
             IN  IF IsExpired(row.expires_at, t)
                 THEN [next |-> "delete", data |-> None, raised |-> FALSE,
                       table |-> tbl]
                 ELSE [next |-> "return", data |-> row.data, raised |-> FALSE,
                       table |-> tbl]

\* delete_cache that filters with .like("id", cache_key) instead of .eq: an
\* underscore in the key matches any character of another key
DeleteCacheByLike(tbl, cache_key, fault) ==
    IF fault
    THEN [table |-> tbl, ok |-> FALSE, raised |-> FALSE]
    ELSE [table |-> DeleteLike(tbl, cache_key), ok |-> TRUE, raised |-> FALSE]

\* delete_cache that reports success without removing the row
DeleteCacheKeepsRow(tbl, cache_key, fault) ==
    IF fault
    THEN [table |-> tbl, ok |-> FALSE, raised |-> FALSE]
    ELSE [table |-> tbl, ok |-> TRUE, raised |-> FALSE]

delete_cache(tbl, cache_key, fault) ==
    IF fault
    THEN [table |-> tbl, ok |-> FALSE, raised |-> FALSE]
    ELSE [table |-> DeleteById(tbl, cache_key), ok |-> TRUE, raised |-> FALSE]

\* set_cached_data without its try/except: a storage fault propagates
SetCachedDataRaises(tbl, ticker, data, range_period, interval, t, fault) ==
    LET cache_key == get_cache_key(ticker, range_period, interval)
        expires_at == t + get_cache_duration(ticker)
    IN  IF fault
        THEN [table |-> tbl, ok |-> FALSE, raised |-> TRUE]
        ELSE [table |-> Upsert(tbl, [id |-> cache_key, data |-> data,
                                      expires_at |-> IsoFormat(expires_at)]),
              ok |-> TRUE, raised |-> FALSE]

set_cached_data(tbl, ticker, data, range_period, interval, t, fault) ==
    LET cache_key == get_cache_key(ticker, range_period, interval)
        cache_duration == get_cache_duration(ticker)
        expires_at == t + cache_duration
    IN  IF fault
        THEN [table |-> tbl, ok |-> FALSE, raised |-> FALSE]
        ELSE [table |-> Upsert(tbl, [id |-> cache_key, data |-> data,
                                      expires_at |-> IsoFormat(expires_at)]),
              ok |-> TRUE, raised |-> FALSE]

invalidate_ticker_cache(tbl, ticker, fault) ==
    LET pat == <<"y", "f", ":">> \o Upper(ticker) \o <<":", "%">>
        left == DeleteLike(tbl, pat)
    IN  IF fault
        THEN [table |-> tbl, count |-> 0, raised |-> FALSE]
        ELSE [table |-> left, count |-> Cardinality(tbl \ left), raised |-> FALSE]

cleanup_expired_cache(tbl, t, fault) ==
    LET left == DeleteLt(tbl, IsoFormat(t))
    IN  IF fault
        THEN [table |-> tbl, count |-> 0, raised |-> FALSE]
        ELSE [table |-> left, count |-> Cardinality(tbl \ left), raised |-> FALSE]

(***************************************************************************)
(* YFinanceNormalizer.validate_ticker_symbol.                               *)
(***************************************************************************)
AllowedChars ==
    {UpperCase[i] : i \in DOMAIN UpperCase} \cup {Digits[i] : i \in DOMAIN Digits}
        \cup {"-", ".", "_", "^"}

validate_ticker_symbol(ticker) ==
    /\ ticker # <<>>
    /\ Len(ticker) <= 10
    /\ \A i \in 1..Len(ticker) : UpperChar(ticker[i]) \in AllowedChars

(***************************************************************************)
(* YFinanceNormalizer.normalize_ticker_data on a raw ticker object.         *)
(* A JSON value is missing, null, a number or a string; numbers are in      *)
(* thousandths (150125 is 150.125), so that round(x, 2) and int(x) do       *)
(* something: rounded fields are in hundredths, volume in units.            *)
(***************************************************************************)
Missing == [t |-> "missing"]
Null == [t |-> "null"]
Num(n) == [t |-> "num", n |-> n]
Str(s) == [t |-> "str", s |-> s]
Frame == [t |-> "list"]
\* datetime.now(timezone.utc).isoformat()
Stamp(t) == [t |-> "str", s |-> "iso", iso |-> IsoFormat(t)]

\* an exception on its way out of the try block
Thrown == [raised |-> TRUE]

\* the truth value Python gives to v
IsTrue(v) == (v.t = "num" /\ v.n # 0) \/ (v.t = "str" /\ v.s # "")

\* a or b
Or(a, b) == IF IsTrue(a) THEN a ELSE b

\* info.get(key, default)
InfoGet(info, key, default) == IF info[key] = Missing THEN default ELSE info[key]

\* n / d rounded to the nearest integer, ties to even (d > 0)
RoundDiv(n, d) ==
    LET q == n \div d
        r == n % d
    IN  IF 2 * r < d THEN q
        ELSE IF 2 * r > d THEN q + 1
        ELSE IF q % 2 = 0 THEN q ELSE q + 1

\* n / d truncated toward zero (d > 0)
Trunc(n, d) == IF n >= 0 THEN n \div d ELSE -((-n) \div d)

\* round(v, 2) if v else 0
Round2(v) ==
    IF ~IsTrue(v) THEN Num(0)
    ELSE IF v.t # "num" THEN Thrown
    ELSE Num(RoundDiv(v.n, 10))

\* int(v) if v else 0
IntCast(v) ==
    IF ~IsTrue(v) THEN Num(0)
    ELSE IF v.t # "num" THEN Thrown
    ELSE Num(Trunc(v.n, 1000))

\* the change computed without the "previous_close > 0" guard: a previous
\* close of 0 divides by zero, a negative one yields a change
ChangePercentUnguarded(current_price, previous_close) ==
    IF previous_close.t # "num" \/ current_price.t # "num" THEN Thrown
    ELSE IF previous_close.n = 0 THEN Thrown
    ELSE IF previous_close.n < 0
    THEN Num(RoundDiv((previous_close.n - current_price.n) * 10000,
                      -previous_close.n))
    ELSE Num(RoundDiv((current_price.n - previous_close.n) * 10000, previous_close.n))

\* lines 42-44 and the round(change_percent, 2) of line 56, in hundredths of a
\* percent
ChangePercent(current_price, previous_close) ==
    IF ~IsTrue(previous_close) THEN Num(0)
    ELSE IF previous_close.t # "num" THEN Thrown
    ELSE IF ~(previous_close.n > 0) THEN Num(0)
    ELSE IF current_price.t # "num" THEN Thrown
    ELSE Num(RoundDiv((current_price.n - previous_close.n) * 10000, previous_close.n))

QuoteKeys ==
    {"ticker", "name", "price", "change_percent", "open", "close", "high", "low",
     "volume", "currency", "market_cap", "timestamp"}

ErrorKeys == {"ticker", "error", "price", "change_percent", "timestamp"}

\* _error_response(ticker=getattr(ticker_obj, "ticker", "UNKNOWN"), error=str(e))
error_response(ticker_obj, t) ==
    [raised |-> FALSE,
     value |-> [k \in ErrorKeys |->
                  CASE k = "ticker" -> IF ticker_obj.attr = "missing"
                                       THEN Str("UNKNOWN")
                                       ELSE Str("TICKER")
                    [] k = "error" -> Str("error")
                    [] k = "timestamp" -> Stamp(t)
                    [] OTHER -> Num(0)]]

\* the try block of normalize_ticker_data, lines 34-71
TryNormalize(ticker_obj, include_history, t) ==
    IF ticker_obj.info_access # "ok" \/ (include_history /\ ticker_obj.history = "raise")
    THEN Thrown
    ELSE LET info == ticker_obj.info
             current_price == Or(InfoGet(info, "regularMarketPrice", Null),
                                 InfoGet(info, "currentPrice", Num(0)))
             previous_close == InfoGet(info, "previousClose", current_price)
             change_percent == ChangePercent(current_price, previous_close)
             open_price == Or(InfoGet(info, "regularMarketOpen", Null),
                              InfoGet(info, "open", Num(0)))
             high_price == Or(InfoGet(info, "dayHigh", Null),
                              InfoGet(info, "regularMarketDayHigh", Num(0)))
             low_price == Or(InfoGet(info, "dayLow", Null),
                             InfoGet(info, "regularMarketDayLow", Num(0)))
             volume == Or(InfoGet(info, "volume", Null),
                          InfoGet(info, "regularMarketVolume", Num(0)))
             normalized ==
                 [k \in QuoteKeys |->
                    CASE k = "ticker" -> InfoGet(info, "symbol", Str("UNKNOWN"))
                      [] k = "name" -> Or(InfoGet(info, "longName", Null),
                                          InfoGet(info, "shortName", Str("")))
                      [] k = "price" -> Round2(current_price)
                      [] k = "change_percent" -> change_percent
                      [] k = "open" -> Round2(open_price)
                      [] k = "close" -> Round2(previous_close)
                      [] k = "high" -> Round2(high_price)
                      [] k = "low" -> Round2(low_price)
                      [] k = "volume" -> IntCast(volume)
                      [] k = "currency" -> InfoGet(info, "currency", Str("USD"))
                      [] k = "market_cap" -> InfoGet(info, "marketCap", Null)
                      [] OTHER -> Stamp(t)]
             with_history == include_history /\ ticker_obj.history # "none"
         IN  IF \E k \in QuoteKeys : normalized[k] = Thrown
             THEN Thrown
             ELSE IF with_history /\ ticker_obj.history \in {"not_a_frame", "bad_rows"}
             THEN Thrown
             ELSE IF with_history /\ ticker_obj.history = "rows"
             THEN [raised |-> FALSE, value |-> normalized @@ ("history" :> Frame)]
             ELSE [raised |-> FALSE, value |-> normalized]

\* normalize_ticker_data without its except clause
NormalizeWithoutExcept(ticker_obj, include_history, t) ==
    TryNormalize(ticker_obj, include_history, t)

\* normalize_ticker_data on the raw object itself (the handlers' steps use the
\* outcome of this call): try ... except Exception -> _error_response
NormalizeTickerData(ticker_obj, include_history, t) ==
    LET res == TryNormalize(ticker_obj, include_history, t)
    IN  IF res = Thrown THEN error_response(ticker_obj, t) ELSE res

(***************************************************************************)
(* The request handlers: get_stock, get_crypto, get_multiple_stocks and     *)
(* get_indices.  A request is one record of rq; every await on the cache    *)
(* manager and every call of the provider is one step.                      *)
(***************************************************************************)
S_BTC == <<"B", "T", "C">>
S_btc == <<"b", "t", "c">>
S_BTC_USD == <<"B", "T", "C", "-", "U", "S", "D">>
S_DOW == <<"D", "O", "W">>
S_DJI == <<"^", "D", "J", "I">>
S_Bad == <<"?", "?", "?">>

SUPPORTED_CRYPTO ==
    { <<"B", "T", "C">>,
      <<"E", "T", "H">>,
      <<"B", "N", "B">>,
      <<"X", "R", "P">>,
      <<"A", "D", "A">>,
      <<"S", "O", "L">>,
      <<"D", "O", "G", "E">>,
      <<"M", "A", "T", "I", "C">>,
      <<"D", "O", "T">>,
      <<"A", "V", "A", "X">>,
      <<"S", "H", "I", "B">>,
      <<"L", "T", "C">>,
      <<"U", "N", "I">>,
      <<"L", "I", "N", "K">>,
      <<"X", "L", "M">>,
      <<"A", "L", "G", "O">>,
      <<"A", "T", "O", "M">>,
      <<"N", "E", "A", "R">>,
      <<"F", "T", "M">>,
      <<"A", "P", "E">> }

MAJOR_INDICES ==
    << <<<<"S", "P", "5", "0", "0">>, <<"^", "G", "S", "P", "C">>>>,
       <<<<"N", "A", "S", "D", "A", "Q">>, <<"^", "I", "X", "I", "C">>>>,
       <<<<"D", "O", "W">>, <<"^", "D", "J", "I">>>>,
       <<<<"F", "T", "S", "E">>, <<"^", "F", "T", "S", "E">>>>,
       <<<<"D", "A", "X">>, <<"^", "G", "D", "A", "X", "I">>>>,
       <<<<"N", "I", "K", "K", "E", "I">>, <<"^", "N", "2", "2", "5">>>>,
       <<<<"H", "A", "N", "G", "S", "E", "N", "G">>, <<"^", "H", "S", "I">>>>,
       <<<<"C", "A", "C", "4", "0">>, <<"^", "F", "C", "H", "I">>>>,
       <<<<"S", "E", "N", "S", "E", "X">>, <<"^", "B", "S", "E", "S", "N">>>>,
       <<<<"A", "S", "X", "2", "0", "0">>, <<"^", "A", "X", "J", "O">>>> >>

\* a key the request body does not carry
Absent == <<"<absent>">>

\* body.get(name, default)
BodyGet(v, default) == IF v = Absent THEN default ELSE v

\* str.split(",") and str.strip()
RECURSIVE SplitComma(_)
SplitComma(s) ==
    IF \E i \in 1..Len(s) : s[i] = ","
    THEN LET i == CHOOSE j \in 1..Len(s) :
                      s[j] = "," /\ \A k \in 1..(j - 1) : s[k] # ","
         IN  <<SubSeq(s, 1, i - 1)>> \o SplitComma(SubSeq(s, i + 1, Len(s)))
    ELSE <<s>>

RECURSIVE Strip(_)
Strip(s) ==
    IF s = <<>> THEN s
    ELSE IF Head(s) = " " THEN Strip(Tail(s))
    ELSE IF s[Len(s)] = " " THEN Strip(SubSeq(s, 1, Len(s) - 1))
    ELSE s

Contains(s, c) == \E i \in 1..Len(s) : s[i] = c

\* validate_request of each handler: [valid, tickers, raised], tickers being
\* what the handler goes on with (upper-cased as the handler upper-cases them).
\* arg.kind is the JSON type of the value the body carries under the handler's
\* key: "none" (absent), "str", "list" (of strings) or "num" (a number other
\* than 0).  raised: validate_request raises instead of returning, as len()
\* and upper() do on a value that is not a string.
Invalid == [valid |-> FALSE, tickers |-> <<>>, raised |-> FALSE]

Raises == [valid |-> FALSE, tickers |-> <<>>, raised |-> TRUE]

Valid(tickers) == [valid |-> TRUE, tickers |-> tickers, raised |-> FALSE]

stock_validate_request(arg) ==
    IF arg.kind = "none" \/ arg.v = <<>>
    THEN Invalid
    ELSE IF arg.kind = "num"
    THEN Raises
    ELSE IF arg.kind = "list"
    THEN IF Len(arg.v) > 10 THEN Invalid ELSE Raises
    ELSE IF ~validate_ticker_symbol(arg.v)
    THEN Invalid
    ELSE Valid(<<Upper(arg.v)>>)

crypto_validate_request(arg) ==
    IF arg.kind = "none" \/ arg.v = <<>>
    THEN Invalid
    ELSE IF arg.kind = "num"
    THEN Raises
    ELSE IF arg.kind = "list"
    THEN IF Contains(arg.v, <<"-">>) /\ Len(arg.v) > 10 THEN Invalid ELSE Raises
    ELSE IF ~Contains(arg.v, "-") /\ Upper(arg.v) \notin SUPPORTED_CRYPTO
    THEN Invalid
    ELSE LET symbol == IF Contains(arg.v, "-")
                       THEN arg.v
                       ELSE Upper(arg.v) \o <<"-", "U", "S", "D">>
         IN  IF ~validate_ticker_symbol(symbol)
             THEN Invalid
             ELSE Valid(<<Upper(symbol)>>)

multi_validate_request(arg) ==
    IF arg.kind = "none" \/ arg.v = <<>>
    THEN Invalid
    ELSE LET split == SplitComma(arg.v)
             ticker_list == IF arg.kind = "str"
                            THEN [i \in 1..Len(split) |-> Strip(split[i])]
                            ELSE arg.v
         IN  IF arg.kind \notin {"str", "list"}
             THEN Invalid
             ELSE IF Len(ticker_list) > 50
             THEN Invalid
             ELSE IF \E i \in 1..Len(ticker_list) :
                        ~validate_ticker_symbol(ticker_list[i])
             THEN Invalid
             ELSE Valid([i \in 1..Len(ticker_list) |-> Upper(ticker_list[i])])

IsMajorIndex(name) == \E i \in DOMAIN MAJOR_INDICES : MAJOR_INDICES[i][1] = name

MajorIndex(name) ==
    MAJOR_INDICES[CHOOSE i \in DOMAIN MAJOR_INDICES : MAJOR_INDICES[i][1] = name][2]

indices_validate_request(arg) ==
    IF arg.kind = "none" \/ arg.v = <<>>
    THEN Valid([i \in DOMAIN MAJOR_INDICES |-> MAJOR_INDICES[i][2]])
    ELSE IF arg.kind = "num"
    THEN Raises
    ELSE LET indices == IF arg.kind = "str" THEN <<arg.v>> ELSE arg.v
             known(index) == IsMajorIndex(Upper(index))
             yahoo(index) == index # <<>> /\ Head(index) = "^"
         IN  IF \E i \in 1..Len(indices) : ~known(indices[i]) /\ ~yahoo(indices[i])
             THEN Invalid
             ELSE Valid([i \in 1..Len(indices) |->
                            IF known(indices[i])
                            THEN MajorIndex(Upper(indices[i]))
                            ELSE Upper(indices[i])])

validate_request(body) ==
    CASE body.handler = "get_stock" -> stock_validate_request(body.arg)
      [] body.handler = "get_crypto" -> crypto_validate_request(body.arg)
      [] body.handler = "get_multiple_stocks" -> multi_validate_request(body.arg)
      [] OTHER -> indices_validate_request(body.arg)

IsBatch(handler) == handler \in {"get_multiple_stocks", "get_indices"}

\* body.get("range", "1mo") in get_stock and get_crypto, "1d" in the batch handlers
DefaultRange(handler) == IF IsBatch(handler) THEN S_1d ELSE S_1mo

\* the asset_type a handler adds to an entry ("" where it adds none)
AssetType(handler) ==
    CASE handler = "get_crypto" -> "crypto"
      [] handler = "get_indices" -> "index"
      [] OTHER -> ""

\* YFinanceNormalizer.normalize_ticker_data on what the provider returned to
\* request h: a quote, or the Error variant when reading the raw record faults.
\* snapshot stands for the prices and the timestamp of this one fetch.
normalize_ticker_data(ticker, include_history, outcome, h) ==
    IF outcome = "error"
    THEN [ticker |-> ticker, error |-> TRUE, history |-> FALSE, cached |-> FALSE,
          asset_type |-> "", failed |-> FALSE, snapshot |-> h]
    ELSE [ticker |-> ticker, error |-> FALSE, history |-> include_history,
          cached |-> FALSE, asset_type |-> "", failed |-> FALSE, snapshot |-> h]

\* the entry a batch handler appends when fetching one ticker raises
FailedEntry(ticker, handler) ==
    [ticker |-> ticker, error |-> TRUE, history |-> FALSE, cached |-> FALSE,
     asset_type |-> IF handler = "get_indices" THEN "index" ELSE "",
     failed |-> TRUE, snapshot |-> 0]

\* cached_data["cached"] = True (and asset_type where the handler sets it)
MarkCached(data, handler) ==
    [data EXCEPT !.cached = TRUE,
                 !.asset_type = IF AssetType(handler) = "" THEN @ ELSE AssetType(handler)]

\* normalized_data["cached"] = False (and asset_type where the handler sets it)
MarkFetched(data, handler) ==
    [data EXCEPT !.cached = FALSE,
                 !.asset_type = IF AssetType(handler) = "" THEN @ ELSE AssetType(handler)]

\* a truth test that never takes the cached branch
TruthyNever(data) == FALSE

\* if cached_data:
Truthy(data) == data # None

NoResponse == [status |-> 0]

Response(status, body) == [status |-> status, body |-> body]

ErrorBody == [error |-> TRUE]

\* the body of a batch response
BatchBody(results, tickers_to_fetch) ==
    [data |-> results, total |-> Len(results),
     cached |-> Len(results) - Len(tickers_to_fetch),
     fetched |-> Len(tickers_to_fetch)]

IdleRequest ==
    [pc |-> "idle", body |-> None, tickers |-> <<>>, range |-> <<>>, interval |-> <<>>,
     idx |-> 0, results |-> <<>>, to_fetch |-> <<>>, norm |-> None,
     resp |-> NoResponse, reads |-> <<>>, called |-> <<>>, writes |-> <<>>,
     after |-> {}]

(***************************************************************************)
(* State.                                                                   *)
(***************************************************************************)
VARIABLES
    table,      \* the market_cache table
    now,        \* datetime.now(timezone.utc), in seconds
    pc,         \* per caller: where its get_cached_data call stands
    gkey,       \* per caller: the cache_key of its pending delete_cache
    last,       \* the cache manager call step taken last, with its result
    lastSet,    \* per key: what the latest successful set stored, if still stored
    nsets,      \* number of set_cached_data calls so far
    rq          \* per request of a handler: its locals, its response, its history

vars == <<table, now, pc, gkey, last, lastSet, nsets, rq>>

Procs == {1}

\* the requests in flight
Reqs == {1, 2}

Symbols == {S_AAPL, S_aapl, S_A_PL}
Ranges == {S_1d, S_1mo}
Intervals == {S_1d}
Payloads == {[ticker |-> "q", price |-> 1], [ticker |-> "q", price |-> 2]}

AllKeys == {get_cache_key(s, r, i) : s \in Symbols, r \in Ranges, i \in Intervals}

NoKey == <<>>

Event(op, arg, fault, data, ok, count, raised) ==
    [op |-> op, arg |-> arg, fault |-> fault, data |-> data, ok |-> ok,
     count |-> count, raised |-> raised]

\* successful writes a ghost record stands for
Writes(rec) == IF rec = None THEN 0 ELSE rec.writes

\* the ghost record of what is stored, after rows were removed
Forget(ls, tbl) ==
    [k \in AllKeys |-> IF \E row \in tbl : row.id = k THEN ls[k] ELSE None]

Init ==
    /\ table = {}
    /\ now = 0
    /\ pc = [p \in Procs |-> "idle"]
    /\ gkey = [p \in Procs |-> NoKey]
    /\ last = Event("init", NoKey, FALSE, None, FALSE, 0, FALSE)
    /\ lastSet = [k \in AllKeys |-> None]
    /\ nsets = 0
    /\ rq = [h \in Reqs |-> IdleRequest]

AdvanceClock ==
    /\ now + Tick <= MaxNow
    /\ now' = now + Tick
    /\ last' = Event("tick", NoKey, FALSE, None, FALSE, 0, FALSE)
    /\ UNCHANGED <<table, pc, gkey, lastSet, nsets, rq>>

\* get_cached_data, lines 77-92 and 97-102: lookup, expiry check, return
GetCachedData(p) ==
    /\ pc[p] = "idle"
    /\ \E ticker \in Symbols, r \in Ranges, i \in Intervals, fault \in BOOLEAN :
         LET res == GetLookup(table, ticker, r, i, now, fault)
             key == get_cache_key(ticker, r, i)
         IN  /\ table' = res.table
             /\ IF res.next = "delete"
                THEN /\ pc' = [pc EXCEPT ![p] = "delete"]
                     /\ gkey' = [gkey EXCEPT ![p] = key]
                     /\ last' = Event("lookup", key, fault, None, FALSE, 0, FALSE)
                ELSE /\ last' = Event("get", key, fault, res.data, FALSE, 0,
                                      res.raised)
                     /\ UNCHANGED <<pc, gkey>>
    /\ UNCHANGED <<now, lastSet, nsets, rq>>

\* get_cached_data, lines 93-95: await delete_cache(cache_key); return None
GetCachedDataDelete(p) ==
    /\ pc[p] = "delete"
    /\ \E fault \in BOOLEAN :
         LET res == delete_cache(table, gkey[p], fault)
         IN  /\ table' = res.table
             /\ lastSet' = Forget(lastSet, res.table)
             /\ last' = Event("get_expired", gkey[p], fault, None, res.ok, 0,
                              res.raised)
    /\ pc' = [pc EXCEPT ![p] = "idle"]
    /\ gkey' = [gkey EXCEPT ![p] = NoKey]
    /\ UNCHANGED <<now, nsets, rq>>

SetCachedData ==
    /\ nsets < MaxSets
    /\ \E ticker \in Symbols, data \in Payloads, r \in Ranges, i \in Intervals,
          fault \in BOOLEAN :
         LET res == set_cached_data(table, ticker, data, r, i, now, fault)
             key == get_cache_key(ticker, r, i)
         IN  /\ table' = res.table
             /\ lastSet' = IF res.ok
                           THEN [lastSet EXCEPT ![key] =
                                   [data |-> data,
                                    expires |-> now + get_cache_duration(ticker),
                                    writes |-> Writes(lastSet[key]) + 1]]
                           ELSE lastSet
             /\ last' = Event("set", key, fault, None, res.ok, 0, res.raised)
    /\ nsets' = nsets + 1
    /\ UNCHANGED <<now, pc, gkey, rq>>

DeleteCache ==
    /\ \E key \in AllKeys, fault \in BOOLEAN :
         LET res == delete_cache(table, key, fault)
         IN  /\ table' = res.table
             /\ lastSet' = Forget(lastSet, res.table)
             /\ last' = Event("delete", key, fault, None, res.ok, 0, res.raised)
    /\ UNCHANGED <<now, pc, gkey, nsets, rq>>

InvalidateTickerCache ==
    /\ \E ticker \in Symbols, fault \in BOOLEAN :
         LET res == invalidate_ticker_cache(table, ticker, fault)
         IN  /\ table' = res.table
             /\ lastSet' = Forget(lastSet, res.table)
             /\ last' = Event("invalidate", ticker, fault, None, FALSE, res.count,
                              res.raised)
    /\ UNCHANGED <<now, pc, gkey, nsets, rq>>

CleanupExpiredCache ==
    /\ \E fault \in BOOLEAN :
         LET res == cleanup_expired_cache(table, now, fault)
         IN  /\ table' = res.table
             /\ lastSet' = Forget(lastSet, res.table)
             /\ last' = Event("sweep", NoKey, fault, None, FALSE, res.count, res.raised)
    /\ UNCHANGED <<now, pc, gkey, nsets, rq>>

Next ==
    \/ AdvanceClock
    \/ \E p \in Procs : GetCachedData(p)
    \/ \E p \in Procs : GetCachedDataDelete(p)
    \/ SetCachedData
    \/ DeleteCache
    \/ InvalidateTickerCache
    \/ CleanupExpiredCache

Spec == Init /\ [][Next]_vars

(***************************************************************************)
(* The handlers' steps.                                                     *)
(***************************************************************************)
Arg(kind, v) == [kind |-> kind, v |-> v]

Body(handler, arg, range, interval, include_history) ==
    [handler |-> handler, arg |-> arg, range |-> range, interval |-> interval,
     include_history |-> include_history]

\* the request bodies the model sends
Requests ==
    { Body("get_stock", Arg("str", S_aapl), Absent, Absent, FALSE),
      Body("get_stock", Arg("str", S_AAPL), Absent, Absent, TRUE),
      Body("get_stock", Arg("str", S_Bad), Absent, Absent, FALSE),
      Body("get_crypto", Arg("str", S_btc), Absent, Absent, FALSE),
      Body("get_multiple_stocks", Arg("list", <<S_aapl>>), S_1mo, Absent, FALSE),
      Body("get_indices", Arg("list", <<S_DOW>>), Absent, Absent, FALSE) }

\* the entry an earlier get_stock request left in the table, expiring at second 0
SeedRow ==
    [id |-> get_cache_key(S_AAPL, S_1mo, S_1d),
     data |-> MarkFetched(normalize_ticker_data(S_AAPL, FALSE, "ok", 0), "get_stock"),
     expires_at |-> IsoFormat(0)]

SeedTables == {{}, {SeedRow}}

\* one finished get_cached_data call of a request
Read(key, outcome, fault) ==
    [key |-> key, outcome |-> outcome, fault |-> fault]

\* the handler's except clause: 500
Raised(r) == [r EXCEPT !.pc = "done", !.resp = Response(500, ErrorBody)]

\* the handler from the return of get_cached_data on
AfterGet(r, data) ==
    LET handler == r.body.handler
        r1 == IF Truthy(data)
              THEN [r EXCEPT !.results = Append(@, MarkCached(data, handler))]
              ELSE [r EXCEPT !.to_fetch = Append(@, r.tickers[r.idx])]
    IN  IF ~IsBatch(handler)
        THEN IF Truthy(data)
             THEN [r EXCEPT !.pc = "done",
                            !.resp = Response(200, MarkCached(data, handler))]
             ELSE [r EXCEPT !.pc = "fetch"]
        ELSE IF r.idx < Len(r.tickers)
        THEN [r1 EXCEPT !.pc = "cache_check", !.idx = r.idx + 1]
        ELSE IF r1.to_fetch # <<>>
        THEN [r1 EXCEPT !.pc = "fetch", !.idx = 1]
        ELSE [r1 EXCEPT !.pc = "done",
                        !.resp = Response(200, BatchBody(r1.results, r1.to_fetch))]

\* a batch loop without its inner try/except: the failure of one ticker's fetch
\* reaches the handler's outer except clause
AfterItemAborts(r, entry) ==
    LET r1 == [r EXCEPT !.results = Append(@, entry), !.norm = None]
    IN  IF entry.failed
        THEN Raised(r)
        ELSE IF r.idx < Len(r.to_fetch)
        THEN [r1 EXCEPT !.pc = "fetch", !.idx = r.idx + 1]
        ELSE [r1 EXCEPT !.pc = "done",
                        !.resp = Response(200, BatchBody(r1.results, r1.to_fetch))]

\* a batch loop whose except clause passes: a ticker whose fetch failed gets no
\* entry in results
AfterItemDropsFailed(r, entry) ==
    LET r1 == [r EXCEPT !.results = IF entry.failed THEN @ ELSE Append(@, entry),
                        !.norm = None]
    IN  IF r.idx < Len(r.to_fetch)
        THEN [r1 EXCEPT !.pc = "fetch", !.idx = r.idx + 1]
        ELSE [r1 EXCEPT !.pc = "done",
                        !.resp = Response(200, BatchBody(r1.results, r1.to_fetch))]

\* a batch handler after one ticker of tickers_to_fetch is dealt with
AfterItem(r, entry) ==
    LET r1 == [r EXCEPT !.results = Append(@, entry), !.norm = None]
    IN  IF r.idx < Len(r.to_fetch)
        THEN [r1 EXCEPT !.pc = "fetch", !.idx = r.idx + 1]
        ELSE [r1 EXCEPT !.pc = "done",
                        !.resp = Response(200, BatchBody(r1.results, r1.to_fetch))]

\* the ticker a request is working on
CurrentTicker(r) ==
    IF r.pc \in {"cache_check", "cache_delete"} \/ ~IsBatch(r.body.handler)
    THEN r.tickers[IF IsBatch(r.body.handler) THEN r.idx ELSE 1]
    ELSE r.to_fetch[r.idx]

InitHandlers ==
    /\ table \in SeedTables
    /\ now = 0
    /\ pc = [p \in Procs |-> "idle"]
    /\ gkey = [p \in Procs |-> NoKey]
    /\ last = Event("init", NoKey, FALSE, None, FALSE, 0, FALSE)
    /\ lastSet = [k \in AllKeys |-> None]
    /\ nsets = 0
    /\ rq = [h \in Reqs |-> IdleRequest]

\* body = await request.json(); validate_request(body); extract parameters
Receive(h, body) ==
    LET v == validate_request(body)
        r == [rq[h] EXCEPT !.body = body,
                           !.after = {g \in Reqs : rq[g].pc = "done"}]
    IN  rq' = [rq EXCEPT ![h] =
                 IF v.raised
                 THEN Raised(r)
                 ELSE IF ~v.valid
                 THEN [r EXCEPT !.pc = "done", !.resp = Response(400, ErrorBody)]
                 ELSE [r EXCEPT !.pc = "cache_check",
                                !.tickers = v.tickers,
                                !.range = BodyGet(body.range,
                                                  DefaultRange(body.handler)),
                                !.interval = BodyGet(body.interval, S_1d),
                                !.idx = 1]]

Arrive(h) ==
    /\ rq[h].pc = "idle"
    /\ \A g \in Reqs : g < h => rq[g].pc # "idle"
    /\ \E body \in Requests : Receive(h, body)
    /\ UNCHANGED <<table, now, pc, gkey, last, lastSet, nsets>>

\* cached_data = await cache_manager.get_cached_data(ticker, range_period, interval)
CacheCheck(h) ==
    /\ rq[h].pc = "cache_check"
    /\ \E fault \in BOOLEAN :
         LET r == rq[h]
             ticker == CurrentTicker(r)
             key == get_cache_key(ticker, r.range, r.interval)
             res == GetLookup(table, ticker, r.range, r.interval, now, fault)
             outcome == IF fault THEN "fault"
                        ELSE IF res.next = "delete" THEN "expired"
                        ELSE IF Truthy(res.data) THEN "hit" ELSE "miss"
             r1 == [r EXCEPT !.reads = Append(@, Read(key, outcome, fault))]
         IN  /\ table' = res.table
             /\ rq' = [rq EXCEPT ![h] =
                         IF res.raised THEN Raised(r1)
                         ELSE IF res.next = "delete"
                         THEN [r1 EXCEPT !.pc = "cache_delete"]
                         ELSE AfterGet(r1, res.data)]
    /\ UNCHANGED <<now, pc, gkey, last, lastSet, nsets>>

\* inside get_cached_data: await self.delete_cache(cache_key); return None
CacheDelete(h) ==
    /\ rq[h].pc = "cache_delete"
    /\ \E fault \in BOOLEAN :
         LET r == rq[h]
             key == get_cache_key(CurrentTicker(r), r.range, r.interval)
             res == delete_cache(table, key, fault)
             r1 == [r EXCEPT !.reads[Len(r.reads)].fault = fault]
         IN  /\ table' = res.table
             /\ rq' = [rq EXCEPT ![h] =
                         IF res.raised THEN Raised(r1) ELSE AfterGet(r1, None)]
    /\ UNCHANGED <<now, pc, gkey, last, lastSet, nsets>>

\* the fetch step of a batch handler that caches quotes only: an Error variant
\* goes into results without a set_cached_data call
FetchSkipsErrorCaching(h) ==
    /\ rq[h].pc = "fetch"
    /\ \E outcome \in {"ok", "error", "raise"} :
         LET r == rq[h]
             handler == r.body.handler
             ticker == CurrentTicker(r)
             normalized == normalize_ticker_data(ticker, r.body.include_history,
                                                 outcome, h)
             r1 == [r EXCEPT !.called =
                        Append(@, [ticker |-> ticker, outcome |-> outcome])]
         IN  rq' = [rq EXCEPT ![h] =
                      IF outcome = "raise"
                      THEN IF IsBatch(handler)
                           THEN AfterItem(r1, FailedEntry(ticker, handler))
                           ELSE Raised(r1)
                      ELSE IF outcome = "error" /\ ~IsBatch(handler)
                      THEN [r1 EXCEPT !.pc = "done", !.resp = Response(404, normalized)]
                      ELSE IF outcome = "error"
                      THEN AfterItem(r1, MarkFetched(normalized, handler))
                      ELSE [r1 EXCEPT !.pc = "cache_set",
                                      !.norm = MarkFetched(normalized, handler)]]
    /\ UNCHANGED <<table, now, pc, gkey, last, lastSet, nsets>>

\* the fetch step without the handler's 'if "error" in normalized_data' check:
\* get_stock and get_crypto go on to cache and return an Error variant
FetchWithoutErrorCheck(h) ==
    /\ rq[h].pc = "fetch"
    /\ \E outcome \in {"ok", "error", "raise"} :
         LET r == rq[h]
             handler == r.body.handler
             ticker == CurrentTicker(r)
             normalized == normalize_ticker_data(ticker, r.body.include_history,
                                                 outcome, h)
             r1 == [r EXCEPT !.called =
                        Append(@, [ticker |-> ticker, outcome |-> outcome])]
         IN  rq' = [rq EXCEPT ![h] =
                      IF outcome = "raise"
                      THEN IF IsBatch(handler)
                           THEN AfterItem(r1, FailedEntry(ticker, handler))
                           ELSE Raised(r1)
                      ELSE [r1 EXCEPT !.pc = "cache_set",
                                      !.norm = MarkFetched(normalized, handler)]]
    /\ UNCHANGED <<table, now, pc, gkey, last, lastSet, nsets>>

\* ticker_obj = yf.Ticker(ticker); normalize_ticker_data(ticker_obj, ...)
Fetch(h) ==
    /\ rq[h].pc = "fetch"
    /\ \E outcome \in {"ok", "error", "raise"} :
         LET r == rq[h]
             handler == r.body.handler
             ticker == CurrentTicker(r)
             normalized == normalize_ticker_data(ticker, r.body.include_history,
                                                 outcome, h)
             r1 == [r EXCEPT !.called =
                        Append(@, [ticker |-> ticker, outcome |-> outcome])]
         IN  rq' = [rq EXCEPT ![h] =
                      IF outcome = "raise"
                      THEN IF IsBatch(handler)
                           THEN AfterItem(r1, FailedEntry(ticker, handler))
                           ELSE Raised(r1)
                      ELSE IF outcome = "error" /\ ~IsBatch(handler)
                      THEN [r1 EXCEPT !.pc = "done", !.resp = Response(404, normalized)]
                      ELSE [r1 EXCEPT !.pc = "cache_set",
                                      !.norm = MarkFetched(normalized, handler)]]
    /\ UNCHANGED <<table, now, pc, gkey, last, lastSet, nsets>>

\* await cache_manager.set_cached_data(ticker, normalized_data, range_period, interval)
CacheSet(h) ==
    /\ rq[h].pc = "cache_set"
    /\ \E fault \in BOOLEAN :
         LET r == rq[h]
             handler == r.body.handler
             ticker == CurrentTicker(r)
             res == set_cached_data(table, ticker, r.norm, r.range, r.interval, now,
                                    fault)
             r1 == [r EXCEPT !.writes =
                        Append(@, [key |-> get_cache_key(ticker, r.range, r.interval),
                                   data |-> r.norm,
                                   expires |-> now + get_cache_duration(ticker),
                                   ok |-> res.ok])]
         IN  /\ table' = res.table
             /\ rq' = [rq EXCEPT ![h] =
                         IF IsBatch(handler)
                         THEN AfterItem(r1, IF res.raised
                                            THEN FailedEntry(ticker, handler)
                                            ELSE r.norm)
                         ELSE IF res.raised THEN Raised(r1)
                         ELSE [r1 EXCEPT !.pc = "done", !.resp = Response(200, r.norm)]]
    /\ UNCHANGED <<now, pc, gkey, last, lastSet, nsets>>

\* time passes between the steps of the requests
HandlerClock ==
    /\ now + Tick <= MaxHandlerNow
    /\ now' = now + Tick
    /\ UNCHANGED <<table, pc, gkey, last, lastSet, nsets, rq>>

NextHandlers ==
    \/ HandlerClock
    \/ \E h \in Reqs : Arrive(h)
    \/ \E h \in Reqs : CacheCheck(h)
    \/ \E h \in Reqs : CacheDelete(h)
    \/ \E h \in Reqs : Fetch(h)
    \/ \E h \in Reqs : CacheSet(h)

SpecHandlers == InitHandlers /\ [][NextHandlers]_vars

(***************************************************************************)
(* Key derivation and TTL: one set_cached_data on the empty table, then one *)
(* get_cached_data under any symbol, range and interval.  The ranges        *)
(* and intervals are what a request body may carry: the handlers pass       *)
(* body.get("range") and body.get("interval") on without looking at them.   *)
(***************************************************************************)
S_1h == <<"1", "h">>
S_1d_1d == <<"1", "d", ":", "1", "d">>
S_btc_usd == <<"b", "t", "c", "-", "u", "s", "d">>
S_gspc == <<"^", "g", "s", "p", "c">>
S_IBM == <<"I", "B", "M">>
S_ibm == <<"i", "b", "m">>

KeySymbols ==
    HIGH_VOLUME_TICKERS \cup {S_aapl, S_btc_usd, S_gspc, S_A_PL, S_BTC, S_IBM, S_ibm}

KeyRanges == {S_1d, S_1mo, S_1d_1d}

KeyIntervals == {S_1d, S_1h, S_1d_1d}

KeyPayload == [ticker |-> "q", price |-> 1]

\* one call of the cache manager with what it derived and returned
KeyCall(op, ticker, range_period, interval, t, ok, data, prev) ==
    [op |-> op, ticker |-> ticker, range |-> range_period, interval |-> interval,
     key |-> get_cache_key(ticker, range_period, interval),
     ttl |-> get_cache_duration(ticker), at |-> t, ok |-> ok, data |-> data,
     prev |-> prev]

InitKey ==
    /\ table = {}
    /\ now = 0
    /\ pc = [p \in Procs |-> "idle"]
    /\ gkey = [p \in Procs |-> NoKey]
    /\ last = [op |-> "init"]
    /\ lastSet = [k \in AllKeys |-> None]
    /\ nsets = 0
    /\ rq = [h \in Reqs |-> IdleRequest]

\* time passes before the write
KeyClock ==
    /\ last.op = "init"
    /\ now + Tick <= MaxNow
    /\ now' = now + Tick
    /\ UNCHANGED <<table, pc, gkey, last, lastSet, nsets, rq>>

\* the one write of a behaviour
KeySet ==
    /\ last.op = "init"
    /\ \E ticker \in KeySymbols, r \in KeyRanges, i \in KeyIntervals, fault \in BOOLEAN :
         LET res == set_cached_data(table, ticker, KeyPayload, r, i, now, fault)
         IN  /\ table' = res.table
             /\ last' = KeyCall("set", ticker, r, i, now, res.ok, None, None)
    /\ UNCHANGED <<now, pc, gkey, lastSet, nsets, rq>>

\* the read that follows the write
KeyGet ==
    /\ last.op = "set"
    /\ \E ticker \in KeySymbols, r \in KeyRanges, i \in KeyIntervals :
         LET res == GetLookup(table, ticker, r, i, now, FALSE)
         IN  /\ res.next = "return"
             /\ table' = res.table
             /\ last' = KeyCall("get", ticker, r, i, now, FALSE, res.data, last)
    /\ UNCHANGED <<now, pc, gkey, lastSet, nsets, rq>>

NextKey ==
    \/ KeyClock
    \/ KeySet
    \/ KeyGet

SpecKey == InitKey /\ [][NextKey]_vars

(***************************************************************************)
(* validate_ticker_symbol on its own, called on short strings over a small  *)
(* alphabet and on strings around the length limit.                         *)
(***************************************************************************)
TickerAlphabet == {"A", "z", "7", "-", ".", "^", "_", "?", " ", ":"}

Repeat(c, n) == [i \in 1..n |-> c]

TickerInputs ==
    UNION {[1..n -> TickerAlphabet] : n \in 0..MaxTickerLen}
        \cup {Repeat("A", 10), Repeat("A", 11), Repeat("z", 10), Repeat("z", 11)}

InitValidate == InitKey

ValidateTickerSymbol ==
    /\ \E ticker \in TickerInputs :
         last' = [op |-> "validate", arg |-> ticker,
                  ok |-> validate_ticker_symbol(ticker)]
    /\ UNCHANGED <<table, now, pc, gkey, lastSet, nsets, rq>>

NextValidate == ValidateTickerSymbol

SpecValidate == InitValidate /\ [][NextValidate]_vars

(***************************************************************************)
(* One request at a time: every kind of request body, well-formed or not,   *)
(* taken through its handler from arrival to response, on a table that      *)
(* earlier requests may have filled.                                        *)
(***************************************************************************)
S_MSFT == <<"M", "S", "F", "T">>
S_HatBad == <<"^", "?">>
S_DashBad == <<"b", "-", "?">>
S_aapl_msft == <<"a", "a", "p", "l", ",", " ", "m", "s", "f", "t">>
S_AAPL_Bad == <<"A", "A", "P", "L", ",", "?", "?", "?">>
S_123 == <<"1", "2", "3">>

\* the bodies validate_request turns down, or fails on
MalformedRequests ==
    << Body("get_stock", Arg("none", <<>>), Absent, Absent, FALSE),
       Body("get_stock", Arg("str", <<>>), Absent, Absent, FALSE),
       Body("get_stock", Arg("str", S_Bad), Absent, Absent, FALSE),
       Body("get_stock", Arg("str", Repeat("A", 11)), Absent, Absent, FALSE),
       Body("get_stock", Arg("num", S_123), Absent, Absent, FALSE),
       Body("get_stock", Arg("list", <<S_AAPL>>), Absent, Absent, FALSE),
       Body("get_crypto", Arg("none", <<>>), Absent, Absent, FALSE),
       Body("get_crypto", Arg("str", S_DOW), Absent, Absent, FALSE),
       Body("get_crypto", Arg("str", S_DashBad), Absent, Absent, FALSE),
       Body("get_crypto", Arg("num", S_123), Absent, Absent, FALSE),
       Body("get_multiple_stocks", Arg("none", <<>>), S_1mo, Absent, FALSE),
       Body("get_multiple_stocks", Arg("list", <<>>), S_1mo, Absent, FALSE),
       Body("get_multiple_stocks", Arg("num", S_123), S_1mo, Absent, FALSE),
       Body("get_multiple_stocks", Arg("list", Repeat(S_AAPL, 51)), S_1mo, Absent, FALSE),
       Body("get_multiple_stocks", Arg("list", <<S_AAPL, S_Bad>>), S_1mo, Absent, FALSE),
       Body("get_multiple_stocks", Arg("str", S_AAPL_Bad), S_1mo, Absent, FALSE),
       Body("get_indices", Arg("str", S_AAPL), Absent, Absent, FALSE),
       Body("get_indices", Arg("num", S_123), Absent, Absent, FALSE) >>

\* the bodies validate_request lets through
AcceptedRequests ==
    << Body("get_stock", Arg("str", S_aapl), Absent, Absent, FALSE),
       Body("get_crypto", Arg("str", S_btc), Absent, Absent, FALSE),
       Body("get_crypto", Arg("str", S_btc_usd), Absent, Absent, TRUE),
       Body("get_multiple_stocks", Arg("list", <<S_aapl, S_MSFT>>), S_1mo, Absent, FALSE),
       Body("get_multiple_stocks", Arg("str", S_aapl_msft), S_1mo, Absent, TRUE),
       Body("get_multiple_stocks", Arg("list", <<S_MSFT, S_aapl, S_MSFT>>), S_1mo, Absent,
            FALSE),
       Body("get_indices", Arg("list", <<S_DOW, S_gspc>>), Absent, Absent, FALSE),
       Body("get_indices", Arg("list", <<S_DOW, S_HatBad>>), Absent, Absent, FALSE),
       Body("get_indices", Arg("str", S_HatBad), Absent, Absent, FALSE) >>

\* (a tuple: the values of the bodies are of different JSON types)
SerialRequests == MalformedRequests \o AcceptedRequests

\* the entry an earlier request left for MSFT, good until second Tick
FreshRow ==
    [id |-> get_cache_key(S_MSFT, S_1mo, S_1d),
     data |-> MarkFetched(normalize_ticker_data(S_MSFT, FALSE, "ok", 0),
                          "get_multiple_stocks"),
     expires_at |-> IsoFormat(Tick)]

SerialTables == {{}, {SeedRow}, {SeedRow, FreshRow}}

InitSerial ==
    /\ table \in SerialTables
    /\ now = Tick
    /\ pc = [p \in Procs |-> "idle"]
    /\ gkey = [p \in Procs |-> NoKey]
    /\ last = Event("init", NoKey, FALSE, None, FALSE, 0, FALSE)
    /\ lastSet = [k \in AllKeys |-> None]
    /\ nsets = 0
    /\ rq = [h \in Reqs |-> IdleRequest]

SerialArrive ==
    /\ rq[1].pc = "idle"
    /\ \E i \in DOMAIN SerialRequests : Receive(1, SerialRequests[i])
    /\ UNCHANGED <<table, now, pc, gkey, last, lastSet, nsets>>

NextSerial ==
    \/ SerialArrive
    \/ CacheCheck(1)
    \/ CacheDelete(1)
    \/ Fetch(1)
    \/ CacheSet(1)

SpecSerial == InitSerial /\ [][NextSerial]_vars

(***************************************************************************)
(* normalize_ticker_data on its own, called on raw ticker objects: an info  *)
(* record of sound values in which up to two fields are missing, null, zero,*)
(* negative or of the wrong type, and objects whose info or history access  *)
(* fails.                                                                   *)
(***************************************************************************)
NumericInfoKeys ==
    {"regularMarketPrice", "currentPrice", "previousClose", "regularMarketOpen",
     "open", "dayHigh", "regularMarketDayHigh", "dayLow", "regularMarketDayLow",
     "volume", "regularMarketVolume", "marketCap"}

TextInfoKeys == {"symbol", "longName", "shortName", "currency"}

InfoKeys == NumericInfoKeys \cup TextInfoKeys

SoundInfo ==
    [k \in InfoKeys |->
       CASE k \in TextInfoKeys -> Str("text")
         [] k = "previousClose" -> Num(100000)
         [] k \in {"volume", "regularMarketVolume", "marketCap"} -> Num(1234567)
         [] OTHER -> Num(150125)]

RawValues ==
    {Missing, Null, Num(0), Num(-5000), Num(150125), Num(100000), Str("abc"), Str("")}

RawInfos ==
    {[SoundInfo EXCEPT ![k1] = v1, ![k2] = v2] :
        k1 \in InfoKeys, k2 \in InfoKeys, v1 \in RawValues, v2 \in RawValues}

HistoryKinds == {"none", "empty", "rows", "bad_rows", "not_a_frame", "raise"}

TickerObj(info_access, info, history, attr) ==
    [info_access |-> info_access, info |-> info, history |-> history, attr |-> attr]

RawTickers ==
    {TickerObj("ok", info, "rows", "present") : info \in RawInfos}
        \cup {TickerObj(a, SoundInfo, hk, attr) :
                 a \in {"ok", "raise", "none"}, hk \in HistoryKinds,
                 attr \in {"present", "missing"}}

InitNormalize == InitKey

\* one call per behaviour
Normalize ==
    /\ last.op = "init"
    /\ \E ticker_obj \in RawTickers, include_history \in BOOLEAN :
         last' = [op |-> "normalize", arg |-> ticker_obj,
                  include_history |-> include_history,
                  out |-> NormalizeTickerData(ticker_obj, include_history, now)]
    /\ UNCHANGED <<table, now, pc, gkey, lastSet, nsets, rq>>

NextNormalize == Normalize

SpecNormalize == InitNormalize /\ [][NextNormalize]_vars

(***************************************************************************)
(* Properties of the cache manager, checked under Spec.                     *)
(***************************************************************************)
RowsOf(tbl, key) == {row \in tbl : row.id = key}

\* the key holds an entry whose expires_at is strictly before t
StoredExpired(tbl, key, t) ==
    \E row \in RowsOf(tbl, key) : FromIsoFormat(row.expires_at) < t

StartsWith(s, prefix) ==
    /\ Len(s) >= Len(prefix)
    /\ SubSeq(s, 1, Len(prefix)) = prefix

\* C1 - round trip: a get that looks a key up without a storage fault, while
\* the entry of the latest successful set on that key is still stored and now
\* is not past its expires_at, returns exactly the payload of that set.
C1_RoundTrip ==
    [][(/\ last'.op \in {"get", "lookup"}
        /\ ~last'.fault
        /\ lastSet[last'.arg] # None
        /\ lastSet[last'.arg].expires >= now)
       => (/\ last'.op = "get"
           /\ last'.data = lastSet[last'.arg].data)]_vars

\* a get returned the payload that was set, at the very second the entry expires
C1_Witness ==
    /\ last.op = "get"
    /\ ~last.fault
    /\ lastSet[last.arg] # None
    /\ lastSet[last.arg].expires = now
    /\ last.data = lastSet[last.arg].data

\* C2 - expiry on read: a get on a key whose stored expires_at is before now
\* returns absent, and when it has returned without a storage fault the table
\* holds no entry under that key.
C2_ExpiryOnRead ==
    [][/\ (/\ last'.op \in {"get", "lookup"}
           /\ StoredExpired(table, last'.arg, now))
          => (/\ last'.data = None
              /\ (~last'.fault => last'.op = "lookup"))
       /\ last'.op = "get_expired"
          => (/\ last'.data = None
              /\ (~last'.fault => RowsOf(table', last'.arg) = {}))]_vars

\* a get found an expired entry, deleted it without fault and returned absent
C2_Witness ==
    /\ last.op = "get_expired"
    /\ ~last.fault
    /\ last.data = None
    /\ RowsOf(table, last.arg) = {}
    /\ lastSet[last.arg] = None

\* C3 - idempotent upsert: the table holds at most one entry per key, and the
\* entry under a key carries the payload and the expires_at of the most recent
\* successful set on that key.
C3_IdempotentUpsert ==
    /\ \A row \in table : row.id \in AllKeys
    /\ \A k \in AllKeys :
         /\ Cardinality(RowsOf(table, k)) <= 1
         /\ \A row \in RowsOf(table, k) :
              /\ lastSet[k] # None
              /\ row.data = lastSet[k].data
              /\ FromIsoFormat(row.expires_at) = lastSet[k].expires

\* the same key was written twice, the second time later than the first, and
\* one entry is left, expiring when the second write says
C3_Witness ==
    /\ last.op = "set"
    /\ last.ok
    /\ now > 0
    /\ lastSet[last.arg].writes = 2
    /\ Cardinality(table) = 1
    /\ \A row \in table :
         /\ row.id = last.arg
         /\ FromIsoFormat(row.expires_at) > now
         /\ FromIsoFormat(row.expires_at) = lastSet[last.arg].expires

\* C4 - fail-open: a storage fault never makes a cache operation raise; get
\* returns absent, set and delete return false, invalidate and sweep return 0.
C4_FailOpen ==
    last.fault =>
        /\ ~last.raised
        /\ last.op \in {"get", "get_expired"} => last.data = None
        /\ last.op \in {"set", "delete", "get_expired"} => ~last.ok
        /\ last.op \in {"invalidate", "sweep"} => last.count = 0

\* a set met a storage fault while the table held an entry, and returned false
C4_Witness ==
    /\ last.op = "set"
    /\ last.fault
    /\ ~last.ok
    /\ ~last.raised
    /\ table # {}

\* C8 - invalidate(symbol), for a symbol validate_ticker_symbol accepts,
\* removes exactly the entries whose key starts with "yf:<SYMBOL>:", leaves
\* every other entry untouched and returns the number of entries removed.
C8_InvalidateExactPrefix ==
    [][(/\ last'.op = "invalidate"
        /\ ~last'.fault
        /\ validate_ticker_symbol(last'.arg))
       => LET prefix == <<"y", "f", ":">> \o Upper(last'.arg) \o <<":">>
              gone == {row \in table : StartsWith(row.id, prefix)}
          IN  /\ table' = table \ gone
              /\ last'.count = Cardinality(gone)]_vars

\* C9 - sweep removes exactly the entries whose expires_at is strictly before
\* now, leaves every entry with expires_at >= now untouched and returns the
\* number of entries it removed.
C9_SweepExact ==
    [][(last'.op = "sweep" /\ ~last'.fault)
       => LET gone == {row \in table : FromIsoFormat(row.expires_at) < now}
          IN  /\ table' = table \ gone
              /\ last'.count = Cardinality(gone)]_vars

\* a sweep removed an expired entry and kept one that expires this very second
C9_Witness ==
    /\ last.op = "sweep"
    /\ ~last.fault
    /\ last.count = 1
    /\ \E row \in table : FromIsoFormat(row.expires_at) = now

\* C10 - no TTL refresh on read: a get that finds a non-expired entry returns
\* the stored payload and leaves the whole table unchanged; a get that finds
\* no entry returns absent and leaves the table unchanged.
C10_NoRefreshOnRead ==
    [][(/\ last'.op \in {"get", "lookup"}
        /\ ~last'.fault
        /\ ~StoredExpired(table, last'.arg, now))
       => (/\ last'.op = "get"
           /\ table' = table
           /\ \A row \in RowsOf(table, last'.arg) : last'.data = row.data
           /\ RowsOf(table, last'.arg) = {} => last'.data = None)]_vars

\* a get returned the payload of an entry that is still stored with the
\* expires_at its set gave it
C10_Witness ==
    /\ last.op = "get"
    /\ ~last.fault
    /\ last.data # None
    /\ now > 0
    /\ \E row \in RowsOf(table, last.arg) :
         /\ row.data = last.data
         /\ FromIsoFormat(row.expires_at) = lastSet[last.arg].expires

(***************************************************************************)
(* Properties of the request handlers, checked under SpecHandlers.          *)
(***************************************************************************)
Done(h) == rq[h].pc = "done"

\* a storage fault met the request: in a lookup, in the lazy delete or in a write
HadFault(r) ==
    \/ \E i \in DOMAIN r.reads : r.reads[i].fault
    \/ \E i \in DOMAIN r.writes : ~r.writes[i].ok

\* the status a valid request gets when the cache is empty and works: decided
\* by the provider and the normalizer alone
EmptyCacheStatus(r) ==
    IF IsBatch(r.body.handler) THEN 200
    ELSE CASE r.called[1].outcome = "ok" -> 200
           [] r.called[1].outcome = "error" -> 404
           [] OTHER -> 500

\* C5 - cache faults are never surfaced by a handler: a valid request that met
\* storage faults in its cache read, lazy delete or cache write has fetched from
\* the provider every key whose read faulted, and answers with the status it
\* would have with an empty, working cache (200 when fetch and normalization
\* succeed).
C5_FaultsNotSurfaced ==
    \A h \in Reqs :
        (Done(h) /\ validate_request(rq[h].body).valid /\ HadFault(rq[h]))
        => LET r == rq[h]
           IN  /\ r.called # <<>>
               /\ \A i \in DOMAIN r.reads :
                    r.reads[i].fault
                    => \E j \in DOMAIN r.called :
                         get_cache_key(r.called[j].ticker, r.range, r.interval)
                             = r.reads[i].key
               /\ r.resp.status = EmptyCacheStatus(r)

\* a get_stock request whose cache read and cache write both faulted answered 200
C5_Witness ==
    \E h \in Reqs :
        /\ Done(h)
        /\ rq[h].body.handler = "get_stock"
        /\ \E i \in DOMAIN rq[h].reads : rq[h].reads[i].fault
        /\ \E i \in DOMAIN rq[h].writes : ~rq[h].writes[i].ok
        /\ rq[h].resp.status = 200
        /\ ~rq[h].resp.body.cached

\* the request missed the cache on key, fetched and wrote the key without fault
MissedAndWrote(r, key) ==
    /\ \E i \in DOMAIN r.reads : r.reads[i].key = key /\ r.reads[i].outcome # "hit"
    /\ r.called # <<>>
    /\ \E i \in DOMAIN r.writes : r.writes[i].key = key /\ r.writes[i].ok

WriteOf(r, key) == r.writes[CHOOSE i \in DOMAIN r.writes : r.writes[i].key = key]

\* C6 - concurrent misses are harmless: when two requests for the same key have
\* both missed, both fetched and both written, both have answered 200 and the
\* table holds exactly one entry for the key: the payload and expiry of the
\* request that wrote last.
C6_ConcurrentMisses ==
    \A a, b \in Reqs : \A key \in {row.id : row \in table} \cup
                                  {rq[a].writes[i].key : i \in DOMAIN rq[a].writes} :
        (/\ a # b
         /\ Done(a) /\ Done(b)
         /\ MissedAndWrote(rq[a], key)
         /\ MissedAndWrote(rq[b], key))
        => LET wa == WriteOf(rq[a], key)
               wb == WriteOf(rq[b], key)
           IN  /\ rq[a].resp.status = 200
               /\ rq[b].resp.status = 200
               /\ Cardinality(RowsOf(table, key)) = 1
               /\ \A row \in RowsOf(table, key) :
                    /\ \/ row.data = wa.data /\ FromIsoFormat(row.expires_at) = wa.expires
                       \/ row.data = wb.data /\ FromIsoFormat(row.expires_at) = wb.expires
                    /\ wa.expires > wb.expires => row.data = wa.data
                    /\ wb.expires > wa.expires => row.data = wb.data

\* two requests for one key ran side by side (neither had answered when the
\* other arrived), both missed and wrote, at different seconds, and the entry
\* left is that of the later write
C6_Witness ==
    \E a, b \in Reqs :
        /\ a # b
        /\ Done(a) /\ Done(b)
        /\ a \notin rq[b].after /\ b \notin rq[a].after
        /\ rq[a].writes # <<>> /\ rq[b].writes # <<>>
        /\ rq[a].writes[1].key = rq[b].writes[1].key
        /\ MissedAndWrote(rq[a], rq[a].writes[1].key)
        /\ MissedAndWrote(rq[b], rq[a].writes[1].key)
        /\ rq[a].writes[1].expires > rq[b].writes[1].expires
        /\ \E row \in table : row.id = rq[a].writes[1].key /\ row.data = rq[a].writes[1].data

\* the provider is called for a key only after the cache read of that key
\* returned absent
ProviderAfterMiss ==
    \A h \in Reqs : \A j \in DOMAIN rq[h].called :
        \E i \in DOMAIN rq[h].reads :
            /\ rq[h].reads[i].key
                   = get_cache_key(rq[h].called[j].ticker, rq[h].range, rq[h].interval)
            /\ rq[h].reads[i].outcome # "hit"

\* request b finishes a cache read in this step
ReadStep(b) == Len(rq'[b].reads) = Len(rq[b].reads) + 1

NewRead(b) == rq'[b].reads[Len(rq'[b].reads)]

\* b is answered from the cache for the key it just read: cached = true and no
\* provider call for it
AnsweredFromCache(b) ==
    /\ NewRead(b).outcome = "hit"
    /\ rq'[b].called = <<>>
    /\ IF IsBatch(rq[b].body.handler)
       THEN /\ rq'[b].to_fetch = rq[b].to_fetch
            /\ Len(rq'[b].results) = Len(rq[b].results) + 1
            /\ rq'[b].results[Len(rq'[b].results)].cached
       ELSE /\ rq'[b].pc = "done"
            /\ rq'[b].resp.status = 200
            /\ rq'[b].resp.body.cached

\* an identical request a, answered before b arrived, missed, fetched and wrote
\* the key b reads now without fault, and the entry it wrote has not expired
EarlierWrote(a, b) ==
    /\ a \in rq[b].after
    /\ rq[a].body = rq[b].body
    /\ rq[a].resp.status = 200
    /\ MissedAndWrote(rq[a], NewRead(b).key)
    /\ WriteOf(rq[a], NewRead(b).key).expires >= now

\* C7 as stated - read-through: the provider is called for a key only after the
\* cache read for it returned absent, and after a request that missed, fetched
\* and wrote the cache without fault, an identical request reading before the
\* entry expires is answered from the cache, with cached = true and without any
\* provider call.
C7_ReadThroughAsStated ==
    /\ []ProviderAfterMiss
    /\ [][\A b \in Reqs :
            (ReadStep(b) /\ \E a \in Reqs : EarlierWrote(a, b))
            => AnsweredFromCache(b)]_vars

\* C7, amended - as C7, for an identical request whose own cache read meets no
\* storage fault and finds the entry the earlier request wrote still stored.
C7_ReadThrough ==
    /\ []ProviderAfterMiss
    /\ [][\A b \in Reqs :
            (/\ ReadStep(b)
             /\ ~NewRead(b).fault
             /\ \E a \in Reqs :
                  /\ EarlierWrote(a, b)
                  /\ \E row \in RowsOf(table, NewRead(b).key) :
                       /\ row.data = WriteOf(rq[a], NewRead(b).key).data
                       /\ FromIsoFormat(row.expires_at)
                              = WriteOf(rq[a], NewRead(b).key).expires)
            => AnsweredFromCache(b)]_vars

\* a get_stock request missed, fetched and wrote; an identical request that
\* arrived after its answer, at the second the entry expires, was answered from
\* the cache with cached = true and never called the provider
C7_Witness ==
    \E a, b \in Reqs :
        /\ a \in rq[b].after
        /\ Done(b)
        /\ rq[a].body = rq[b].body
        /\ rq[a].body.handler = "get_stock"
        /\ rq[a].writes # <<>> /\ rq[a].writes[1].ok
        /\ rq[a].writes[1].expires = now
        /\ rq[b].reads # <<>> /\ rq[b].reads[1].outcome = "hit"
        /\ rq[b].called = <<>>
        /\ rq[b].resp.status = 200
        /\ rq[b].resp.body.cached
        /\ rq[b].resp.body.snapshot = a

(***************************************************************************)
(* Properties of key derivation and TTL, checked under SpecKey.             *)
(***************************************************************************)
\* the allow-list as the claim gives it
C11_AllowList ==
    { <<"A", "A", "P", "L">>, <<"M", "S", "F", "T">>, <<"G", "O", "O", "G", "L">>,
      <<"A", "M", "Z", "N">>, <<"M", "E", "T", "A">>, <<"T", "S", "L", "A">>,
      <<"N", "V", "D", "A">>, <<"B", "T", "C", "-", "U", "S", "D">>,
      <<"E", "T", "H", "-", "U", "S", "D">>, <<"^", "G", "S", "P", "C">>,
      <<"^", "I", "X", "I", "C">>, <<"^", "D", "J", "I">> }

C11_ttlFor(symbol) == IF Upper(symbol) \in C11_AllowList THEN 300 ELSE 600

\* C11 - two-tier TTL: every successful set(symbol, ...) stores one entry whose
\* expires_at is the time of the write plus 300 seconds when the upper-cased
\* symbol is in the allow-list and plus 600 seconds otherwise, whatever the
\* range and the interval.
C11_TwoTierTTL ==
    (last.op = "set" /\ last.ok)
    => /\ Cardinality(table) = 1
       /\ \A row \in table :
            FromIsoFormat(row.expires_at) = last.at + C11_ttlFor(last.ticker)

\* a lower-case allow-list symbol was set after the clock had advanced and got
\* the short TTL
C11_Witness ==
    /\ last.op = "set"
    /\ last.ok
    /\ last.ticker = S_btc_usd
    /\ last.at > 0
    /\ \A row \in table : FromIsoFormat(row.expires_at) = last.at + 300

\* C12 - key uniqueness: for symbols validate_ticker_symbol accepts and the
\* range and interval strings of a request, two calls derive the same key only
\* if their symbols are equal up to letter case and their ranges and their
\* intervals are equal.
C12_KeyUnique ==
    (/\ last.op = "get"
     /\ validate_ticker_symbol(last.ticker)
     /\ validate_ticker_symbol(last.prev.ticker)
     /\ last.key = last.prev.key)
    => /\ Upper(last.ticker) = Upper(last.prev.ticker)
       /\ last.range = last.prev.range
       /\ last.interval = last.prev.interval

\* C13 - the key is case-insensitive on the symbol: a get under a symbol that
\* differs from the symbol of the set only in letter case, with the same range
\* and interval, derives the same key and the same TTL and returns the entry
\* that set stored.
C13_CaseInsensitive ==
    (/\ last.op = "get"
     /\ Upper(last.ticker) = Upper(last.prev.ticker)
     /\ last.range = last.prev.range
     /\ last.interval = last.prev.interval)
    => /\ last.key = last.prev.key
       /\ last.ttl = last.prev.ttl
       /\ last.prev.ok => last.data = KeyPayload

\* an entry set as "AAPL" was read back as "aapl"
C13_Witness ==
    /\ last.op = "get"
    /\ last.ticker = S_aapl
    /\ last.prev.ticker = S_AAPL
    /\ last.prev.ok
    /\ last.range = last.prev.range
    /\ last.interval = last.prev.interval
    /\ last.key = last.prev.key
    /\ last.data = KeyPayload

(***************************************************************************)
(* Properties of validate_ticker_symbol, checked under SpecValidate.        *)
(***************************************************************************)
\* the characters the claim allows
C16_Chars ==
    {UpperCase[i] : i \in DOMAIN UpperCase} \cup {Digits[i] : i \in DOMAIN Digits}
        \cup {"-", ".", "^"}

\* C16 - validate_ticker_symbol returns true exactly for the strings of length
\* 1 to 10 whose every character is an uppercase letter, a digit, a hyphen, a
\* period or a caret, and false for every other string.
C16_ValidateExact ==
    last.op = "validate"
    => (last.ok <=> (/\ Len(last.arg) >= 1
                     /\ Len(last.arg) <= 10
                     /\ \A i \in 1..Len(last.arg) : last.arg[i] \in C16_Chars))

(***************************************************************************)
(* Further properties of the request handlers, checked under SpecHandlers.  *)
(***************************************************************************)
\* the request went to the provider and the normalizer returned the Error variant
NormalizerError(r) ==
    /\ r.called # <<>>
    /\ r.called[1].outcome = "error"

\* C18 - single-entity normalization error: when a get_stock or get_crypto
\* request has missed the cache and the normalizer has returned the Error
\* variant, the request is answered 404 with that Error variant as its body,
\* and nothing is written to the cache.
C18_NormalizationError404 ==
    \A h \in Reqs :
        (/\ Done(h)
         /\ rq[h].body.handler \in {"get_stock", "get_crypto"}
         /\ NormalizerError(rq[h]))
        => /\ \E i \in DOMAIN rq[h].reads : rq[h].reads[i].outcome # "hit"
           /\ rq[h].resp.status = 404
           /\ rq[h].resp.body.error
           /\ ~rq[h].resp.body.failed
           /\ rq[h].resp.body.ticker = rq[h].called[1].ticker
           /\ rq[h].resp.body.snapshot = h
           /\ rq[h].writes = <<>>

\* a get_crypto request missed the cache, got the Error variant and answered 404
C18_Witness ==
    \E h \in Reqs :
        /\ Done(h)
        /\ rq[h].body.handler = "get_crypto"
        /\ rq[h].reads # <<>> /\ rq[h].reads[1].outcome = "miss"
        /\ NormalizerError(rq[h])
        /\ rq[h].resp.status = 404
        /\ rq[h].resp.body.error
        /\ rq[h].resp.body.ticker = S_BTC_USD

\* the quotes a response carries
QuotesOf(r) ==
    IF r.resp.status # 200 THEN {}
    ELSE IF IsBatch(r.body.handler)
    THEN {r.resp.body.data[i] : i \in DOMAIN r.resp.body.data}
    ELSE {r.resp.body}

\* C19 - history only on request: in every response, over any sequence of
\* requests mixing include_history = true and false for one (symbol, range,
\* interval), a quote carries a history field only when the request it answers
\* asked for historical data.
C19_HistoryOnlyOnRequest ==
    \A h \in Reqs :
        Done(h) => \A q \in QuotesOf(rq[h]) : q.history => rq[h].body.include_history

(***************************************************************************)
(* Properties of one request, checked under SpecSerial.                     *)
(***************************************************************************)
\* the value is a string that validate_ticker_symbol accepts
C14_GoodSymbol(kind, v) == kind = "str" /\ validate_ticker_symbol(v)

\* the tickers value as a list of symbols
C14_TickerList(arg) ==
    IF arg.kind = "str"
    THEN LET split == SplitComma(arg.v)
         IN  [i \in 1..Len(split) |-> Strip(split[i])]
    ELSE arg.v

\* malformed or missing required input, as the claim lists it: the ticker, the
\* symbol or the tickers are missing; the symbol is not one validate_ticker_symbol
\* accepts; the tickers are neither a string nor a list, are more than 50 or
\* hold an invalid symbol
C14_Malformed(body) ==
    LET arg == body.arg
    IN  CASE body.handler = "get_stock" ->
               arg.kind = "none" \/ arg.v = <<>> \/ ~C14_GoodSymbol(arg.kind, arg.v)
          [] body.handler = "get_crypto" ->
               \/ arg.kind = "none" \/ arg.v = <<>>
               \/ arg.kind # "str"
               \/ Contains(arg.v, "-") /\ ~validate_ticker_symbol(arg.v)
          [] body.handler = "get_multiple_stocks" ->
               \/ arg.kind = "none" \/ arg.v = <<>>
               \/ arg.kind \notin {"str", "list"}
               \/ Len(C14_TickerList(arg)) > 50
               \/ \E i \in DOMAIN C14_TickerList(arg) :
                    ~validate_ticker_symbol(C14_TickerList(arg)[i])
          [] OTHER -> FALSE

\* C14 - validation short-circuit: every request with malformed or missing
\* required input is answered with status 400, and no cache operation and no
\* provider call is performed for it.
C14_ValidationShortCircuit ==
    \A h \in Reqs :
        (Done(h) /\ C14_Malformed(rq[h].body))
        => /\ rq[h].resp.status = 400
           /\ rq[h].reads = <<>>
           /\ rq[h].called = <<>>
           /\ rq[h].writes = <<>>

\* the symbol is among those the request was validated for, and
\* validate_ticker_symbol accepts it
C15_Gated(r, ticker) ==
    /\ \E k \in DOMAIN r.tickers : r.tickers[k] = ticker
    /\ validate_ticker_symbol(ticker)

\* C15 - validate_ticker_symbol is the single gate of all four handlers: every
\* symbol that reaches a cache get, a cache set or a provider call has been
\* accepted by validate_ticker_symbol.
C15_SingleGate ==
    \A h \in Reqs :
        /\ \A i \in DOMAIN rq[h].reads :
             \E k \in DOMAIN rq[h].tickers :
                 /\ rq[h].reads[i].key
                        = get_cache_key(rq[h].tickers[k], rq[h].range, rq[h].interval)
                 /\ validate_ticker_symbol(rq[h].tickers[k])
        /\ \A j \in DOMAIN rq[h].called : C15_Gated(rq[h], rq[h].called[j].ticker)
        /\ \A j \in DOMAIN rq[h].writes :
             \E k \in DOMAIN rq[h].tickers :
                 /\ rq[h].writes[j].key
                        = get_cache_key(rq[h].tickers[k], rq[h].range, rq[h].interval)
                 /\ validate_ticker_symbol(rq[h].tickers[k])

\* the entry of the response for the j-th symbol the request fetched
C17_EntryOf(r, j) ==
    r.resp.body.data[Len(r.resp.body.data) - Len(r.to_fetch) + j]

\* C17 - batch fault isolation: a validated get_multiple_stocks or get_indices
\* request is answered 200 with one entry per symbol; a symbol whose provider
\* fetch or normalization failed has one entry carrying an error, and every
\* other symbol has its normal entry: the cached quote, or the quote just
\* fetched for it.
C17_BatchIsolation ==
    \A h \in Reqs :
        (/\ Done(h)
         /\ IsBatch(rq[h].body.handler)
         /\ validate_request(rq[h].body).valid)
        => LET r == rq[h]
               ncached == Len(r.tickers) - Len(r.to_fetch)
           IN  /\ r.resp.status = 200
               /\ Len(r.resp.body.data) = Len(r.tickers)
               /\ Len(r.called) = Len(r.to_fetch)
               /\ \A i \in 1..ncached :
                    /\ r.resp.body.data[i].cached
                    /\ \E k \in DOMAIN r.tickers :
                         r.tickers[k] = r.resp.body.data[i].ticker
               /\ \A j \in DOMAIN r.to_fetch :
                    /\ r.called[j].ticker = r.to_fetch[j]
                    /\ C17_EntryOf(r, j).ticker = r.to_fetch[j]
                    /\ ~C17_EntryOf(r, j).cached
                    /\ C17_EntryOf(r, j).error = (r.called[j].outcome # "ok")
                    /\ C17_EntryOf(r, j).failed = (r.called[j].outcome = "raise")
                    /\ r.called[j].outcome # "raise" => C17_EntryOf(r, j).snapshot = h

\* a batch of two: the fetch of the first symbol raised, the second symbol was
\* fetched, normalized and cached, and the answer is 200 with both entries
C17_Witness ==
    \E h \in Reqs :
        /\ Done(h)
        /\ rq[h].body.handler = "get_multiple_stocks"
        /\ Len(rq[h].to_fetch) = 2
        /\ Len(rq[h].called) = 2
        /\ rq[h].called[1].outcome = "raise"
        /\ rq[h].called[2].outcome = "ok"
        /\ rq[h].resp.status = 200
        /\ rq[h].resp.body.data[1].error
        /\ ~rq[h].resp.body.data[2].error
        /\ rq[h].resp.body.data[2].ticker = S_MSFT
        /\ \E row \in table : row.id = get_cache_key(S_MSFT, S_1mo, S_1d)

(***************************************************************************)
(* Properties of normalize_ticker_data, checked under SpecNormalize.        *)
(***************************************************************************)
\* the twelve fields of a full quote, as the data model lists them
C20_QuoteFields ==
    {"ticker", "name", "price", "change_percent", "open", "close", "high", "low",
     "volume", "currency", "market_cap", "timestamp"}

\* a full quote: the twelve fields (and history, only if asked for), the price
\* fields and the volume being numbers
C20_FullQuote(out, include_history) ==
    /\ \/ DOMAIN out.value = C20_QuoteFields
       \/ include_history /\ DOMAIN out.value = C20_QuoteFields \cup {"history"}
    /\ \A k \in {"price", "change_percent", "open", "close", "high", "low", "volume"} :
         out.value[k].t = "num"
    /\ out.value["timestamp"].t = "str"

\* the Error variant {ticker, error, price: 0, change_percent: 0, timestamp}
C20_ErrorVariant(out) ==
    /\ DOMAIN out.value = {"ticker", "error", "price", "change_percent", "timestamp"}
    /\ out.value["price"] = Num(0)
    /\ out.value["change_percent"] = Num(0)
    /\ out.value["ticker"].t = "str"
    /\ out.value["error"].t = "str"
    /\ out.value["timestamp"].t = "str"

\* C20 - normalization is total: for every raw ticker object, also when its
\* info or history access fails or fields are missing, null or of the wrong
\* type, normalize_ticker_data returns without raising, and what it returns is
\* a full quote or the Error variant.
C20_NormalizeTotal ==
    last.op = "normalize"
    => /\ ~last.out.raised
       /\ C20_FullQuote(last.out, last.include_history) \/ C20_ErrorVariant(last.out)

\* a price of the wrong type made normalize_ticker_data return the Error variant
C20_Witness ==
    /\ last.op = "normalize"
    /\ last.arg.info_access = "ok"
    /\ last.arg.info["regularMarketPrice"] = Str("abc")
    /\ ~last.out.raised
    /\ C20_ErrorVariant(last.out)

\* the raw record gives a previous close that is not greater than 0: zero,
\* negative or null
C21_PrevNotPositive(info) ==
    \/ info["previousClose"] = Null
    \/ info["previousClose"].t = "num" /\ info["previousClose"].n <= 0

\* the current price of a raw record: regularMarketPrice, else currentPrice
C21_Current(info) ==
    IF info["regularMarketPrice"].t = "num" /\ info["regularMarketPrice"].n # 0
    THEN info["regularMarketPrice"]
    ELSE info["currentPrice"]

\* what normalize_ticker_data returned is a quote, not the Error variant
C21_NonError(out) == ~out.raised /\ "error" \notin DOMAIN out.value

\* pct is (current - previous_close) / previous_close * 100 rounded to two
\* decimals: pct is in hundredths of a percent and at most half a hundredth off
C21_IsChange(pct, current, previous_close) ==
    LET diff == pct * previous_close - (current - previous_close) * 10000
    IN  2 * diff <= previous_close /\ -2 * diff <= previous_close

\* a quote's change_percent is computed by the formula when the previous close
\* is greater than 0, and only then
C21_FormulaOnlyWhenPositive ==
    (/\ last.op = "normalize"
     /\ last.arg.info_access = "ok"
     /\ C21_NonError(last.out)
     /\ last.arg.info["previousClose"].t = "num"
     /\ C21_Current(last.arg.info).t = "num")
    => IF last.arg.info["previousClose"].n > 0
       THEN C21_IsChange(last.out.value["change_percent"].n,
                         C21_Current(last.arg.info).n,
                         last.arg.info["previousClose"].n)
       ELSE last.out.value["change_percent"] = Num(0)

C21_FieldsReadable(info) ==
    \A k \in NumericInfoKeys : info[k].t \in {"num", "null", "missing"}

C23_LazyDeleteOnlyExpired ==
    [][(pc[1] = "delete" /\ pc'[1] = "idle")
       => \A row \in table \ table' : IsExpired(row.expires_at, now)]_vars

\* how many entries of a sequence of response entries carry the symbol
C24_Entries(data, symbol) ==
    Cardinality({i \in DOMAIN data : data[i].ticker = symbol})

\* how many times the request names the symbol
C24_Requested(tickers, symbol) ==
    Cardinality({k \in DOMAIN tickers : tickers[k] = symbol})

\* C24 - batch accounting: in every 200 response of get_multiple_stocks and
\* get_indices, data holds exactly one entry per requested symbol (a symbol
\* requested n times has n entries), total is the number of requested symbols,
\* cached is the number of entries served from the cache, fetched is the number
\* of symbols sent to the provider, and cached + fetched = total.
C24_BatchAccounting ==
    (/\ Done(1)
     /\ IsBatch(rq[1].body.handler)
     /\ rq[1].resp.status = 200)
    => LET r == rq[1]
           b == r.resp.body
       IN  /\ Len(b.data) = Len(r.tickers)
           /\ \A k \in DOMAIN r.tickers :
                C24_Entries(b.data, r.tickers[k]) = C24_Requested(r.tickers, r.tickers[k])
           /\ b.total = Len(r.tickers)
           /\ b.cached = Cardinality({i \in DOMAIN b.data : b.data[i].cached})
           /\ b.fetched = Len(r.called)
           /\ b.cached + b.fetched = b.total

\* MSFT, AAPL, MSFT was asked for: both MSFT entries came from the cache, AAPL
\* was sent to the provider and failed, and the counts are 3, 2 and 1
C24_Witness ==
    /\ Done(1)
    /\ rq[1].body.handler = "get_multiple_stocks"
    /\ rq[1].tickers = <<S_MSFT, S_AAPL, S_MSFT>>
    /\ rq[1].resp.status = 200
    /\ rq[1].resp.body.total = 3
    /\ rq[1].resp.body.cached = 2
    /\ rq[1].resp.body.fetched = 1
    /\ rq[1].called[1].outcome = "raise"
    /\ rq[1].resp.body.data[3].failed

\* the key a request uses for a ticker
C25_KeyOf(r, ticker) == get_cache_key(ticker, r.range, r.interval)

\* a finished batch request called set_cached_data with the Error variant for
\* every symbol the Normalizer returned one for
C25_ErrorWriteAttempted ==
    \A h \in Reqs :
        (Done(h) /\ IsBatch(rq[h].body.handler))
        => \A j \in DOMAIN rq[h].called :
             rq[h].called[j].outcome = "error"
             => \E i \in DOMAIN rq[h].writes :
                  /\ rq[h].writes[i].key = C25_KeyOf(rq[h], rq[h].called[j].ticker)
                  /\ rq[h].writes[i].data.error
                  /\ rq[h].writes[i].data.ticker = rq[h].called[j].ticker

\* ... and the Error variant was stored
C25_ErrorWritten ==
    \A h \in Reqs :
        (Done(h) /\ IsBatch(rq[h].body.handler))
        => \A j \in DOMAIN rq[h].called :
             rq[h].called[j].outcome = "error"
             => \E i \in DOMAIN rq[h].writes :
                  /\ rq[h].writes[i].key = C25_KeyOf(rq[h], rq[h].called[j].ticker)
                  /\ rq[h].writes[i].data.error
                  /\ rq[h].writes[i].ok

\* a get_stock or get_crypto request that ended in 404 wrote nothing
C25_NotFoundWritesNothing ==
    \A h \in Reqs :
        (Done(h) /\ ~IsBatch(rq[h].body.handler) /\ rq[h].resp.status = 404)
        => /\ rq[h].writes = <<>>
           /\ rq[h].called # <<>>
           /\ rq[h].called[1].outcome = "error"

\* a batch request a, answered before b arrived, got an Error variant for the
\* key b reads now and stored it, and the entry has not expired
C25_EarlierCachedError(a, b) ==
    /\ a \in rq[b].after
    /\ IsBatch(rq[a].body.handler)
    /\ \E j \in DOMAIN rq[a].called :
         /\ rq[a].called[j].outcome = "error"
         /\ C25_KeyOf(rq[a], rq[a].called[j].ticker) = NewRead(b).key
    /\ \E i \in DOMAIN rq[a].writes :
         /\ rq[a].writes[i].key = NewRead(b).key
         /\ rq[a].writes[i].data.error
         /\ rq[a].writes[i].ok
         /\ rq[a].writes[i].expires >= now

\* b is answered from the cache with the error entry, without a provider call
C25_AnsweredWithError(b) ==
    /\ AnsweredFromCache(b)
    /\ IF IsBatch(rq[b].body.handler)
       THEN rq'[b].results[Len(rq'[b].results)].error
       ELSE rq'[b].resp.body.error

\* C25 as stated - error results are cached only by the batch handlers: in
\* get_multiple_stocks and get_indices an Error variant returned by the
\* Normalizer is written to the cache, so until it expires later requests for
\* that key are answered from the cache with the error entry and without a
\* provider call, whereas a get_stock or get_crypto request that ends in 404
\* writes nothing to the cache.
C25_ErrorCachingAsStated ==
    /\ []C25_ErrorWritten
    /\ [][\A b \in Reqs :
            (ReadStep(b) /\ \E a \in Reqs : C25_EarlierCachedError(a, b))
            => C25_AnsweredWithError(b)]_vars
    /\ []C25_NotFoundWritesNothing

\* C25, amended - as C25, where the write of the Error variant and the later
\* request's cache read meet no storage fault and the read finds the error
\* entry still stored.
C25_ErrorCaching ==
    /\ []C25_ErrorWriteAttempted
    /\ [][\A b \in Reqs :
            (/\ ReadStep(b)
             /\ ~NewRead(b).fault
             /\ \E a \in Reqs :
                  /\ C25_EarlierCachedError(a, b)
                  /\ \E row \in RowsOf(table, NewRead(b).key) :
                       /\ row.data.error
                       /\ row.data.snapshot = a)
            => C25_AnsweredWithError(b)]_vars
    /\ []C25_NotFoundWritesNothing

\* get_multiple_stocks got an Error variant for AAPL and stored it; a get_stock
\* request for the same key that arrived after its answer was answered 200 from
\* the cache with that error entry and never called the provider
C25_Witness ==
    \E a, b \in Reqs :
        /\ a \in rq[b].after
        /\ Done(b)
        /\ rq[a].body.handler = "get_multiple_stocks"
        /\ rq[a].called # <<>> /\ rq[a].called[1].outcome = "error"
        /\ rq[a].writes # <<>> /\ rq[a].writes[1].ok /\ rq[a].writes[1].data.error
        /\ rq[b].body.handler = "get_stock"
        /\ rq[b].reads # <<>> /\ rq[b].reads[1].outcome = "hit"
        /\ rq[b].called = <<>>
        /\ rq[b].resp.status = 200
        /\ rq[b].resp.body.cached
        /\ rq[b].resp.body.error

\* the entries stored under keys other than key
C26_OtherRows(tbl, key) == {row \in tbl : row.id # key}

\* C26 - per-key frame: a get, a set, or the lazy delete a get triggers, on key
\* k never creates, changes or removes the entry stored under any key other
\* than k.
C26_PerKeyFrame ==
    [][last'.op \in {"get", "lookup", "get_expired", "set"}
       => C26_OtherRows(table', last'.arg) = C26_OtherRows(table, last'.arg)]_vars

\* the lazy delete of a get removed the expired entry of its key, and the entry
\* of another key, expired as well, is still stored
C26_Witness ==
    /\ last.op = "get_expired"
    /\ last.ok
    /\ RowsOf(table, last.arg) = {}
    /\ \E row \in C26_OtherRows(table, last.arg) : IsExpired(row.expires_at, now)

====
